---- MODULE Spec2Model ----
(***************************************************************************)
(* Model of the remediation core of isc-ryoung/Hack2:                      *)
(*   - CommandReceiverService (src/src/services/command_receiver.py)       *)
(*   - RemediationCommand validation (src/src/models/remediation_command)  *)
(*   - CPFManager (src/src/services/cpf_manager.py)                        *)
(*   - ConfigAgent (src/src/agents/config_agent.py)                        *)
(*   - OrchestratorAgent, OrchestratorAgentSDK, RestartAgentSDK, OSAgent   *)
(*   - MessageSenderService (src/src/services/message_sender.py)           *)
(***************************************************************************)
EXTENDS Integers, Sequences, FiniteSets, TLC

(***************************************************************************)
(* Bounds of the model.                                                    *)
(***************************************************************************)
\* commands that pass validation in one run
MaxReceive == 3
\* commands that pass validation in one run of the intake specification
MaxIntake == 3
\* distinct command_id values a caller supplies
NumIds == 2
\* consumers pulling from the queue
NumWorkers == 2
\* wall-clock seconds the run spans
MaxClock == 1
\* calls into the configuration store in one run
MaxCalls == 2
\* route_command calls in one run
MaxRoutes == 2
\* restart invocations in one run
MaxRestarts == 2
\* handler invocations in one run of the handlers together
MaxInvocations == 2
\* huge pages the kernel can hold in this model
MaxPages == 2
\* largest LLM_MAX_RETRIES configured
MaxRetries == 3
\* send_message calls in one run
MaxSends == 3

\* deliveries attempted by retry_queued_messages
MaxAttempts == 4

(***************************************************************************)
(* RemediationCommand: the pydantic model and its field validator.         *)
(***************************************************************************)
ActionTypes == {"config_change", "os_reconfig", "restart"}

Priorities == {"low", "medium", "high", "critical"}

MinTargetLen == 1

MaxTargetLen == 100

DefaultPriority == "medium"

\* JSON values of the parameters mapping, tagged with their JSON type
Str(s) == [t |-> "str", v |-> s]

Num(s) == [t |-> "num", v |-> s]

\* the validator with the config_change check forgetting "value"
validate_parameters_by_action_NoValue(action_type, v) ==
    CASE action_type = "config_change" ->
            {"section", "key"} \subseteq DOMAIN v
      [] action_type = "os_reconfig" ->
            {"resource_type", "target_value"} \subseteq DOMAIN v
      [] action_type = "restart" ->
            ~("mode" \in DOMAIN v /\ v["mode"] \notin {Str("graceful"), Str("forced")})
      [] OTHER -> TRUE

\* validate_parameters_by_action as the code has it, TRUE when no ValueError is raised
validate_parameters_by_action(action_type, v) ==
    CASE action_type = "config_change" ->
            {"section", "key", "value"} \subseteq DOMAIN v
      [] action_type = "os_reconfig" ->
            {"resource_type", "target_value"} \subseteq DOMAIN v
      [] action_type = "restart" ->
            ~("mode" \in DOMAIN v /\ v["mode"] \notin {Str("graceful"), Str("forced")})
      [] OTHER -> TRUE

\* uuid4(): a value no caller supplies and no earlier call produced
uuid4(n) == NumIds + n

\* RemediationCommand.model_validate_json on payload p; p.fields are the JSON
\* keys the payload carries.  n numbers the command object that is built.
model_validate_json(p, n) ==
    LET typed == /\ "action_type" \in p.fields
                 /\ p.action_type \in ActionTypes
        at    == IF typed THEN p.action_type ELSE "None"
        ok    == /\ typed
                 /\ "target" \in p.fields
                 /\ Len(p.target) >= MinTargetLen
                 /\ Len(p.target) <= MaxTargetLen
                 /\ "parameters" \in p.fields
                 /\ validate_parameters_by_action(at, p.parameters)
                 /\ ("priority" \in p.fields => p.priority \in Priorities)
    IN  IF ~ok THEN [ok |-> FALSE, error |-> "ValidationError"]
        ELSE [ok |-> TRUE,
              command |->
                [command_id  |-> IF "command_id" \in p.fields
                                 THEN p.command_id ELSE uuid4(n),
                 action_type |-> p.action_type,
                 target      |-> p.target,
                 parameters  |-> p.parameters,
                 priority    |-> IF "priority" \in p.fields
                                 THEN p.priority ELSE DefaultPriority,
                 object      |-> n]]

(***************************************************************************)
(* CommandReceiverService.                                                 *)
(***************************************************************************)
VARIABLES
    command_queue,   \* dict: command_id -> RemediationCommand
    command_order,   \* list of command_id
    last,            \* the last call on the service and what it returned
    objects,         \* number of command objects built so far
    accepted,        \* history: the commands receive_command accepted
    dequeued,        \* history: the commands get_next_command returned
    inflight         \* per worker: the command whose handler is running

qvars == <<command_queue, command_order, last, objects, accepted, dequeued, inflight>>

\* the configuration store (CPFManager, below)
VARIABLES
    cpf,        \* content of the file at cpf_path
    backups,    \* backup directory: timestamp of the file name -> content
    clock,      \* datetime.now() in whole seconds
    call,       \* the store call in progress, or idle
    ret,        \* what write_setting returned, while nothing has run since
    result,     \* what ConfigAgent._execute_impl returned, while nothing has run since
                \* (with history: content and number of backups before the call)
    txn,        \* history: file content before and intended by the latest write
    seen,       \* what a reader of the file last saw
    calls       \* number of store calls started

svars == <<cpf, backups, clock, call, ret, result, txn, seen, calls>>

\* the router (OrchestratorAgent, OrchestratorAgentSDK, below)
VARIABLES
    routes      \* history: the route_command calls made and what each returned

rvars == <<routes>>

\* the restart handler (RestartAgentSDK, below)
VARIABLES
    restart_run,    \* the restart invocation in progress or last finished
    restarts    \* number of restart invocations started

tvars == <<restart_run, restarts>>

\* the OS-resource handler (OSAgent, below)
VARIABLES
    nr_hugepages,   \* /proc/sys/vm/nr_hugepages
    os_result,      \* the last OSAgent invocation and what it returned
    os_calls        \* number of OSAgent invocations

ovars == <<nr_hugepages, os_result, os_calls>>

\* the message sender (MessageSenderService, below)
VARIABLES
    message_queue,  \* self.message_queue: the messages kept for retry
    send_result,    \* the last send_message call and what it returned
    sends,          \* number of send_message calls made by clients
    retry           \* the retry_queued_messages call in progress or last finished

mvars == <<message_queue, send_result, sends, retry>>

\* callers of the pure operations of the services
VARIABLES
    flag            \* the last requires_restart call and what it returned

fvars == <<flag>>

\* the classifier client (LLMClient, below)
VARIABLES
    llm             \* the LLMClient.parse call in progress or finished

lvars == <<llm>>

\* the state of the components other than the queue and the store
xvars == <<rvars, tvars, ovars, mvars, fvars, lvars>>

\* priority_order.get(priority, 2)
priority_order(p) ==
    CASE p = "critical" -> 0
      [] p = "high"     -> 1
      [] p = "medium"   -> 2
      [] p = "low"      -> 3
      [] OTHER          -> 2

\* dict[key] = value
DictSet(d, k, val) == [x \in DOMAIN d \cup {k} |-> IF x = k THEN val ELSE d[x]]

\* dict.pop(key) for a key that is present
DictPop(d, k) == [x \in DOMAIN d \ {k} |-> d[x]]

\* list.insert(at - 1, x), positions counted from 1
ListInsert(s, at, x) == SubSeq(s, 1, at - 1) \o <<x>> \o SubSeq(s, at, Len(s))

\* the loop of _check_conflicts from position i on
RECURSIVE check_conflicts_from(_, _, _, _)
check_conflicts_from(order, queue, command, i) ==
    IF i > Len(order) THEN [result |-> "None"]
    ELSE IF order[i] \notin DOMAIN queue THEN [result |-> "KeyError"]
    ELSE IF queue[order[i]].target = command.target
         THEN [result |-> "conflict", id |-> order[i]]
    ELSE check_conflicts_from(order, queue, command, i + 1)

_check_conflicts(order, queue, command) ==
    check_conflicts_from(order, queue, command, 1)

\* the loop of _insert_by_priority from position i on: where to insert
RECURSIVE insert_at_from(_, _, _, _)
insert_at_from(order, queue, command_priority, i) ==
    IF i > Len(order) THEN [result |-> "at", at |-> Len(order) + 1]
    ELSE IF order[i] \notin DOMAIN queue THEN [result |-> "KeyError"]
    ELSE IF command_priority < priority_order(queue[order[i]].priority)
         THEN [result |-> "at", at |-> i]
    ELSE insert_at_from(order, queue, command_priority, i + 1)

insert_point(order, queue, command) ==
    insert_at_from(order, queue, priority_order(command.priority), 1)

\* _insert_by_priority: the new order, or the KeyError of a dangling id
_insert_by_priority(order, queue, command) ==
    LET p == insert_point(order, queue, command)
    IN  IF p.result = "KeyError" THEN [result |-> "KeyError"]
        ELSE [result |-> "ok",
              order  |-> ListInsert(order, p.at, command.command_id)]

\* list.index(x) + 1 for an x that is in the list
RECURSIVE IndexFrom(_, _, _)
IndexFrom(s, x, i) == IF s[i] = x THEN i ELSE IndexFrom(s, x, i + 1)

Rejected(p, err) ==
    [op |-> "receive_command", input |-> p, status |-> "rejected", error |-> err]

\* receive_command(command_json)
ReceiveCommand(p) ==
    /\ LET parsed == model_validate_json(p, objects + 1)
       IN  IF ~parsed.ok
           THEN /\ last' = Rejected(p, parsed.error)
                /\ UNCHANGED <<command_queue, command_order, objects, accepted>>
           ELSE
             LET command  == parsed.command
                 conflict == _check_conflicts(command_order, command_queue, command)
                 queue1   == DictSet(command_queue, command.command_id, command)
                 ins      == _insert_by_priority(command_order, queue1, command)
             IN  /\ objects' = objects + 1
                 /\ IF conflict.result = "KeyError"
                    THEN /\ last' = Rejected(p, "KeyError")
                         /\ UNCHANGED <<command_queue, command_order, accepted>>
                    ELSE IF ins.result = "KeyError"
                    THEN /\ command_queue' = queue1
                         /\ last' = Rejected(p, "KeyError")
                         /\ UNCHANGED <<command_order, accepted>>
                    ELSE /\ command_queue' = queue1
                         /\ command_order' = ins.order
                         /\ accepted' = accepted \cup {command}
                         /\ last' = [op |-> "receive_command", input |-> p,
                                     status |-> "accepted",
                                     command_id |-> command.command_id,
                                     queue_position |->
                                        IndexFrom(ins.order, command.command_id, 1),
                                     conflicts |-> conflict.result # "None",
                                     command |-> command]
    /\ UNCHANGED <<dequeued, inflight>>
    /\ UNCHANGED <<svars, xvars>>

\* the effect of get_next_command on the queue; r is what the caller gets
get_next_command(r) ==
    IF command_order = <<>>
    THEN /\ r = [status |-> "None"]
         /\ UNCHANGED <<command_queue, command_order, dequeued>>
    ELSE LET command_id == Head(command_order)
         IN  /\ command_order' = Tail(command_order)
             /\ IF command_id \in DOMAIN command_queue
                THEN /\ command_queue' = DictPop(command_queue, command_id)
                     /\ dequeued' = Append(dequeued, command_queue[command_id])
                     /\ r = [status |-> "command",
                             command |-> command_queue[command_id]]
                ELSE /\ r = [status |-> "KeyError"]
                     /\ UNCHANGED <<command_queue, dequeued>>

GetNextResults ==
    {[status |-> "None"], [status |-> "KeyError"]}
        \cup {[status |-> "command", command |-> command_queue[k]] :
                 k \in DOMAIN command_queue}

\* a single consumer calls get_next_command
GetNextCommand ==
    /\ \E r \in GetNextResults :
          /\ get_next_command(r)
          /\ last' = [op |-> "get_next_command", result |-> r]
    /\ UNCHANGED <<objects, accepted, inflight>>
    /\ UNCHANGED <<svars, xvars>>

\* get_queue_status(): the dict returned, or the KeyError of the lookup of an
\* id of command_order that command_queue does not hold
get_queue_status(order, queue) ==
    IF \E i \in 1..Len(order) : order[i] \notin DOMAIN queue
    THEN [status |-> "KeyError"]
    ELSE [status |-> "ok",
          total_commands |-> Len(order),
          by_priority |->
             [p \in Priorities |->
                 Cardinality({i \in 1..Len(order) : queue[order[i]].priority = p})],
          by_action |->
             [t \in ActionTypes |->
                 Cardinality({i \in 1..Len(order) : queue[order[i]].action_type = t})]]

\* a client calls get_queue_status
GetQueueStatus ==
    /\ last' = [op |-> "get_queue_status",
                result |-> get_queue_status(command_order, command_queue)]
    /\ last' # last
    /\ UNCHANGED <<command_queue, command_order, objects, accepted, dequeued, inflight>>
    /\ UNCHANGED <<svars, xvars>>

\* a worker takes the next command and starts its handler
WorkerPull(w) ==
    /\ inflight[w] = {}
    /\ \E r \in GetNextResults :
          /\ get_next_command(r)
          /\ last' = [op |-> "get_next_command", result |-> r]
          /\ inflight' = [inflight EXCEPT ![w] =
                            IF r.status = "command" THEN {r.command} ELSE {}]
    /\ UNCHANGED <<objects, accepted>>
    /\ UNCHANGED <<svars, xvars>>

\* the handler a worker runs returns (BaseAgent.execute)
WorkerFinish(w) ==
    /\ inflight[w] # {}
    /\ inflight' = [inflight EXCEPT ![w] = {}]
    /\ UNCHANGED <<command_queue, command_order, last, objects, accepted, dequeued>>
    /\ UNCHANGED <<svars, xvars>>

(***************************************************************************)
(* CPFManager: the configuration file, its backups and the wall clock.     *)
(* A file is the mapping section -> key -> value that its text spells out. *)
(***************************************************************************)
EmptyFile == [s \in {} |-> s]

InitFile ==
    [s \in {"Startup"} |->
        [k \in {"globals", "routines"} |-> IF k = "globals" THEN "10000" ELSE "5000"]]

\* the order in which config.write emits the sections of this model
SectionOrder == <<"Startup", "Other">>

\* a key whose text breaks the line structure of the file when written
BadKeys == {"bad\nkey"}

\* optionxform: option names are lower-cased
Lower(k) ==
    CASE k \in {"Globals", "GLOBALS"} -> "globals"
      [] k = "WIJDir" -> "wijdir"
      [] k = "Unrelated" -> "unrelated"
      [] OTHER -> k

\* the parser strips the white space around a value it reads
Strip(v) == IF v = " 20000 " THEN "20000" ELSE v

\* what the text config.write emits spells out when it is read back
written(config) ==
    [s \in DOMAIN config |-> [k \in DOMAIN config[s] |-> Strip(config[s][k])]]

\* ConfigParser().read(path): the parsed sections, or a ParsingError
Parse(file) ==
    IF \E s \in DOMAIN file : DOMAIN file[s] \cap BadKeys # {}
    THEN [ok |-> FALSE]
    ELSE [ok |-> TRUE, config |-> file]

has_option(config, section, key) ==
    section \in DOMAIN config /\ Lower(key) \in DOMAIN config[section]

\* add_section when absent, then config.set on the parsed file
config_set(config, section, key, value) ==
    [s \in DOMAIN config \cup {section} |->
        IF s = section
        THEN DictSet(IF section \in DOMAIN config THEN config[section] ELSE EmptyFile,
                     Lower(key), value)
        ELSE config[s]]

\* has_option / add_section / set raise for a value that is no string and for
\* the reserved section name
SetRaises(section, key, value) ==
    \/ section.t # "str" \/ key.t # "str" \/ value.t # "str"
    \/ section.v = "DEFAULT"

\* read_setting: {value}, or {} for None (absent, or any exception)
read_setting(file, section, key) ==
    LET parsed == Parse(file)
    IN  IF section.t # "str" \/ key.t # "str" \/ ~parsed.ok THEN {}
        ELSE IF has_option(parsed.config, section.v, key.v)
             THEN {parsed.config[section.v][Lower(key.v)]}
        ELSE {}

\* a backup that snapshots nothing
create_backup_Empty(file, bks, now, io) ==
    [raised |-> FALSE, backups |-> DictSet(bks, now, EmptyFile)]

\* create_backup at second now; io is the outcome of shutil.copy2
create_backup(file, bks, now, io) ==
    IF io = "fail" THEN [raised |-> TRUE, backups |-> bks]
    ELSE [raised |-> FALSE, backups |-> DictSet(bks, now, file)]

\* a restore that copies nothing and reports success
restore_backup_Skipped(file, bks, backup_path, io) ==
    [ok |-> TRUE, file |-> file]

\* restore_backup(backup_path); io is the outcome of shutil.copy2
restore_backup(file, bks, backup_path, io) ==
    IF io = "fail" \/ backup_path \notin DOMAIN bks
    THEN [ok |-> FALSE, file |-> file]
    ELSE [ok |-> TRUE, file |-> bks[backup_path]]

\* validate_cpf
validate_cpf(file) == Parse(file).ok

\* a restart flag that looks at the section only
requires_restart_SectionOnly(section, key) == section \in {"Startup", "config"}

\* requires_restart
requires_restart(section, key) ==
    \/ section \in {"Startup", "config"}
    \/ Lower(key) \in {"globals", "routines", "gmheap", "locksiz",
                       "genericheap", "wijdir", "database"}

\* what the file holds when config.write stops after j sections
WrittenPrefix(new, j) ==
    [s \in {SectionOrder[i] : i \in 1..j} \cap DOMAIN new |-> new[s]]

PartialWrites(new) == {WrittenPrefix(new, j) : j \in 0..(Cardinality(DOMAIN new) - 1)}

IO == {"ok", "fail"}

Idle == [pc |-> "idle"]

AllStr(section, key, value) == section.t = "str" /\ key.t = "str" /\ value.t = "str"

\* a response that never carries an error message
ConfigAgentResponse_NoError(success, section, key, old_value, value, restart, backup_path, error) ==
    [op |-> "config_agent", raised |-> FALSE, success |-> success,
     section |-> section.v, key |-> key.v, old_value |-> old_value,
     new_value |-> value.v, requires_restart |-> restart,
     backup_path |-> backup_path, error_message |-> {}]

\* ConfigAgentResponse(...).model_dump_json(); building it raises for a
\* section, key or new_value that is no string, also in the last except branch
ConfigAgentResponse(success, section, key, old_value, value, restart, backup_path, error) ==
    IF ~AllStr(section, key, value) THEN [op |-> "config_agent", raised |-> TRUE]
    ELSE [op |-> "config_agent", raised |-> FALSE, success |-> success,
          section |-> section.v, key |-> key.v, old_value |-> old_value,
          new_value |-> value.v, requires_restart |-> restart,
          backup_path |-> backup_path, error_message |-> error]

\* what the caller of write_setting gets; an agent turns a failure into its response
Return(kind, section, key, value, old_value, success, backup_path, pre, restore) ==
    /\ ret' = [returned |-> TRUE, success |-> success, backup_path |-> backup_path,
               pre |-> pre, restore |-> restore]
    /\ IF kind = "agent" /\ ~success
       THEN /\ result' = ConfigAgentResponse(FALSE, section, key, old_value, value, FALSE,
                            backup_path, {"Failed to write configuration setting"})
            /\ call' = Idle
       ELSE IF kind = "agent"
       THEN /\ result' = [op |-> "None"]
            /\ call' = [pc |-> "validate", section |-> section, key |-> key,
                        value |-> value, old_value |-> old_value,
                        backup_path |-> backup_path, pre |-> pre,
                        nbackups |-> call.nbackups]
       ELSE /\ result' = [op |-> "None"]
            /\ call' = Idle

\* write_setting(section, key, value, create_backup) up to open(cpf_path, 'w'):
\* backup, read, has_option, add_section, set, and the truncating open.
\* iob, ioo and ior are the outcomes of the copy of create_backup, of the open
\* and of the copy of restore_backup; an operation that does not run is "ok".
\* kind tells a direct call from the one ConfigAgent._execute_impl makes after
\* reading the old value.
WriteSettingBegin(kind, section, key, value, backup) ==
    /\ call.pc = "idle"
    /\ \E iob \in IO, ioo \in IO, ior \in IO :
        LET old_value   == read_setting(cpf, section, key)
            bk          == IF backup THEN create_backup(cpf, backups, clock, iob)
                           ELSE [raised |-> FALSE, backups |-> backups]
            backup_path == IF backup /\ ~bk.raised THEN {clock} ELSE {}
            parsed      == Parse(cpf)
            raises      == ~parsed.ok \/ SetRaises(section, key, value) \/ ioo = "fail"
            rb          == restore_backup(cpf, bk.backups, clock, ior)
        IN  /\ ~backup => iob = "ok"
            /\ (bk.raised \/ ~parsed.ok \/ SetRaises(section, key, value)) => ioo = "ok"
            /\ (bk.raised \/ ~raises \/ backup_path = {}) => ior = "ok"
            /\ backups' = bk.backups
            /\ IF bk.raised
               THEN /\ cpf' = cpf
                    /\ txn' = [pre |-> cpf, new |-> cpf]
                    /\ Return(kind, section, key, value, old_value, FALSE, {}, cpf, "none")
               ELSE IF raises
               THEN /\ cpf' = IF backup_path # {} THEN rb.file ELSE cpf
                    /\ txn' = [pre |-> cpf, new |-> cpf]
                    /\ Return(kind, section, key, value, old_value, FALSE, backup_path, cpf,
                              IF backup_path = {} THEN "none"
                              ELSE IF rb.ok THEN "ok" ELSE "failed")
               ELSE LET new == written(config_set(parsed.config, section.v, key.v, value.v))
                    IN  /\ cpf' = EmptyFile
                        /\ txn' = [pre |-> cpf, new |-> new]
                        /\ ret' = [returned |-> FALSE]
                        /\ result' = [op |-> "None"]
                        /\ call' = [pc |-> "writing", kind |-> kind, section |-> section,
                                    key |-> key, value |-> value, old_value |-> old_value,
                                    backup_path |-> backup_path, pre |-> cpf, new |-> new,
                                    nbackups |-> Cardinality(DOMAIN backups)]
    /\ calls' = calls + 1
    /\ UNCHANGED <<clock, seen>>
    /\ UNCHANGED <<qvars, xvars>>

\* config.write(f) and the close of the file: either the whole new content
\* reaches the file, or the write raises part-way and the except branch runs
WriteSettingPersist ==
    /\ call.pc = "writing"
    /\ \E iow \in IO, ior \in IO :
        IF iow = "ok"
        THEN /\ ior = "ok"
             /\ cpf' = call.new
             /\ Return(call.kind, call.section, call.key, call.value, call.old_value,
                       TRUE, call.backup_path, call.pre, "none")
        ELSE \E partial \in PartialWrites(call.new) :
                LET rb == IF call.backup_path = {} THEN [ok |-> FALSE, file |-> partial]
                          ELSE restore_backup(partial, backups,
                                              CHOOSE b \in call.backup_path : TRUE, ior)
                IN  /\ call.backup_path = {} => ior = "ok"
                    /\ cpf' = rb.file
                    /\ Return(call.kind, call.section, call.key, call.value,
                              call.old_value, FALSE, call.backup_path, call.pre,
                              IF call.backup_path = {} THEN "none"
                              ELSE IF rb.ok THEN "ok" ELSE "failed")
    /\ UNCHANGED <<backups, clock, txn, seen, calls>>
    /\ UNCHANGED <<qvars, xvars>>

\* ConfigAgent._execute_impl after a successful write_setting: validate_cpf,
\* the rollback when it fails, and the response
AgentValidate ==
    /\ call.pc = "validate"
    /\ \E ior \in IO :
        IF validate_cpf(cpf)
        THEN /\ ior = "ok"
             /\ cpf' = cpf
             /\ result' = ConfigAgentResponse(TRUE, call.section, call.key, call.old_value,
                             call.value, requires_restart(call.section.v, call.key.v),
                             call.backup_path, {})
                          @@ [pre |-> call.pre, restore |-> "none",
                              nbackups |-> call.nbackups]
        ELSE LET rb == IF call.backup_path = {} THEN [ok |-> FALSE, file |-> cpf]
                       ELSE restore_backup(cpf, backups,
                                           CHOOSE b \in call.backup_path : TRUE, ior)
             IN  /\ cpf' = rb.file
                 /\ result' = ConfigAgentResponse(FALSE, call.section, call.key,
                                 call.old_value, call.value, FALSE, call.backup_path,
                                 {"CPF validation failed, changes rolled back"})
                              @@ [pre |-> call.pre,
                                  restore |-> IF rb.ok THEN "ok" ELSE "failed",
                                  nbackups |-> call.nbackups]
    /\ call' = Idle
    /\ ret' = [returned |-> FALSE]
    /\ UNCHANGED <<backups, clock, txn, seen, calls>>
    /\ UNCHANGED <<qvars, xvars>>

\* cpf_manager.write_setting called directly
WriteSetting(section, key, value, backup) ==
    WriteSettingBegin("direct", section, key, value, backup)

\* ConfigAgent._execute_impl on a config_change with these parameters
ConfigAgentExecute(section, key, value) ==
    WriteSettingBegin("agent", section, key, value, TRUE)

\* another reader opens the file (config.read of read_setting, get_all_sections)
ReadFile ==
    /\ seen' = [content |-> cpf, pre |-> txn.pre, new |-> txn.new]
    /\ seen' # seen
    /\ UNCHANGED <<cpf, backups, clock, call, ret, result, txn, calls>>
    /\ UNCHANGED <<qvars, xvars>>

\* a second of wall-clock time passes; the clock is read by create_backup only,
\* at the start of a call, so the seconds that pass during a call are taken
\* when it has returned
Tick ==
    /\ call.pc = "idle"
    /\ clock < MaxClock
    /\ clock' = clock + 1
    /\ UNCHANGED <<cpf, backups, call, ret, result, txn, seen, calls>>
    /\ UNCHANGED <<qvars, xvars>>

SectionInputs == {Str("Startup"), Str("Other"), Str("DEFAULT")}

KeyInputs == {Str("globals"), Str("Globals"), Str("bad\nkey")}

ValueInputs == {Str("20000"), Num("20000")}

SInit ==
    /\ cpf = InitFile
    /\ backups = [t \in {} |-> t]
    /\ clock = 0
    /\ call = Idle
    /\ ret = [returned |-> FALSE]
    /\ result = [op |-> "None"]
    /\ txn = [pre |-> InitFile, new |-> InitFile]
    /\ seen = [content |-> InitFile, pre |-> InitFile, new |-> InitFile]
    /\ calls = 0

(***************************************************************************)
(* Payloads submitted to receive_command.                                  *)
(***************************************************************************)
AllFields == {"command_id", "action_type", "target", "parameters", "priority"}

Targets == {"iris.cpf", "instance"}

NoParameters == [k \in {} |-> Str("")]

ConfigParameters ==
    [section |-> Str("Startup"), key |-> Str("globals"), value |-> Str("20000")]

\* restart commands with caller-chosen ids, targets and priorities
QueuePayloads ==
    [fields : {AllFields}, command_id : 1..NumIds, action_type : {"restart"},
     target : Targets, parameters : {NoParameters}, priority : Priorities]

\* parameter mappings tried with config_change
ConfigShapes ==
    {ConfigParameters,
     [section |-> Str("Startup"), key |-> Str("globals")],
     [section |-> Str("Startup"), value |-> Str("20000")],
     [key |-> Str("globals"), value |-> Str("20000")],
     [section |-> Str("Startup"), key |-> Str("globals"), value |-> Num("20000")]}

\* parameter mappings tried with os_reconfig
OsShapes ==
    {[resource_type |-> Str("memory"), target_value |-> Num("16384")],
     [resource_type |-> Str("disk"), target_value |-> Num("16384")],
     [resource_type |-> Str("memory")]}

\* parameter mappings tried with restart
RestartShapes ==
    {NoParameters, [mode |-> Str("forced")], [mode |-> Str("invalid")]}

LongTarget ==
    "xxxxxxxxxxxxxxxxxxxxxxxxxxxxxxxxxxxxxxxxxxxxxxxxxxxxxxxxxxxxxxxxxxxxxxxxxxxxxxxxxxxxxxxxxxxxxxxxxxxxx"

ShapePayload(fields, action_type, target, parameters, priority) ==
    [fields |-> fields, command_id |-> 0, action_type |-> action_type,
     target |-> target, parameters |-> parameters, priority |-> priority]

\* payloads without command_id (uuid4 supplies it): each action type with its
\* parameter shapes, and payloads breaking the schema itself
ShapePayloads ==
    {ShapePayload(AllFields \ {"command_id", "priority"}, "config_change",
                  "iris.cpf", ps, "medium") : ps \in ConfigShapes}
    \cup
    {ShapePayload(AllFields \ {"command_id", "priority"}, "os_reconfig",
                  "hugepages", ps, "medium") : ps \in OsShapes}
    \cup
    {ShapePayload(AllFields \ {"command_id"}, "restart",
                  "instance", ps, "critical") : ps \in RestartShapes}
    \cup
    {ShapePayload(AllFields \ {"command_id"}, "reboot", "instance",
                  NoParameters, "high"),
     ShapePayload(AllFields \ {"command_id"}, "restart", "",
                  NoParameters, "high"),
     ShapePayload(AllFields \ {"command_id"}, "restart", LongTarget,
                  NoParameters, "high"),
     ShapePayload(AllFields \ {"command_id"}, "restart", "instance",
                  NoParameters, "urgent"),
     ShapePayload({"target", "parameters"}, "config_change", "iris.cpf",
                  ConfigParameters, "medium"),
     ShapePayload({"action_type", "parameters"}, "config_change", "iris.cpf",
                  ConfigParameters, "medium"),
     ShapePayload({"action_type", "target"}, "config_change", "iris.cpf",
                  ConfigParameters, "medium")}

\* commands whose status is asked for: caller-chosen ids, two action types,
\* two priorities
StatusPayloads ==
    [fields : {AllFields}, command_id : 1..NumIds, action_type : {"restart"},
     target : {"instance"}, parameters : {NoParameters}, priority : {"high", "low"}]
    \cup
    [fields : {AllFields}, command_id : 1..NumIds, action_type : {"config_change"},
     target : {"iris.cpf"}, parameters : {ConfigParameters}, priority : {"high", "low"}]

\* commands for the worker pool: fresh ids, two targets
WorkerPayloads ==
    [fields : {AllFields \ {"command_id"}}, command_id : {0},
     action_type : {"restart"}, target : Targets,
     parameters : {NoParameters}, priority : {"high", "low"}]

Workers == 1..NumWorkers

(***************************************************************************)
(* The router: OrchestratorAgent and OrchestratorAgentSDK.                 *)
(***************************************************************************)
AgentTypes == {"config", "os", "restart", "none"}

Risks == {"low", "medium", "high"}

\* agent_map.get(action_type, "none")
agent_map(action_type) ==
    CASE action_type = "config_change" -> "config"
      [] action_type = "os_reconfig"   -> "os"
      [] action_type = "restart"       -> "restart"
      [] OTHER                         -> "none"

\* risk_map.get(action_type, "medium")
risk_map(action_type) ==
    CASE action_type = "config_change" -> "medium"
      [] action_type = "os_reconfig"   -> "high"
      [] action_type = "restart"       -> "high"
      [] OTHER                         -> "medium"

\* OrchestratorAgent._route_with_rules
_route_with_rules(command) ==
    LET agent_type == agent_map(command.action_type)
        risk       == risk_map(command.action_type)
    IN  [agent_type |-> agent_type,
         command_str |-> [dump |-> "command", of |-> command],
         rationale |-> <<"Rule-based routing", command.action_type, agent_type>>,
         requires_validation |-> (risk # "low"),
         estimated_risk |-> risk]

\* routing_map.get(action_type, default) of OrchestratorAgentSDK
routing_map(action_type) ==
    CASE action_type = "config_change" ->
            <<"config", "CPF configuration modification", "medium", TRUE>>
      [] action_type = "os_reconfig" ->
            <<"os", "Operating system resource reconfiguration", "high", TRUE>>
      [] action_type = "restart" ->
            <<"restart", "Instance restart operation", "high", TRUE>>
      [] OTHER ->
            <<"config", "Default routing to config agent", "low", FALSE>>

\* OrchestratorAgentSDK._route_with_rules
sdk_route_with_rules(command) ==
    LET row == routing_map(command.action_type)
    IN  [agent_type |-> row[1],
         command_str |-> [dump |-> "parameters", of |-> command.parameters],
         rationale |-> <<row[2]>>,
         requires_validation |-> row[4],
         estimated_risk |-> row[3]]

\* the OrchestratorResponse values a classifier can produce: every value the
\* schema admits for the enumerated fields, free text for the others
LLMResponses ==
    [agent_type : AgentTypes, command_str : {[dump |-> "text"]},
     rationale : {<<"text">>}, requires_validation : BOOLEAN,
     estimated_risk : Risks]

\* outcomes of llm_client.parse: the retries are exhausted (API error, timeout,
\* output that does not parse), message.parsed is None, or a parsed response
ParseOutcomes ==
    {[kind |-> "raise"], [kind |-> "none"]}
    \cup {[kind |-> "parsed", response |-> r] : r \in LLMResponses}

\* outcomes of Runner.run_sync: it raises, the result has no final_output, the
\* final_output is neither a response nor a string, it is a string that does
\* not validate, it is a string that validates, or it is a response
RunnerOutcomes ==
    {[kind |-> "raise"], [kind |-> "no_output"], [kind |-> "other"],
     [kind |-> "str_malformed"]}
    \cup {[kind |-> "str", response |-> r] : r \in LLMResponses}
    \cup {[kind |-> "parsed", response |-> r] : r \in LLMResponses}

\* outcomes that are a failure of the classifier, not an answer
FailedOutcomes == {"raise", "none", "no_output", "other", "str_malformed"}

\* OrchestratorAgent.route_command: execute, _execute_impl, and the parse of
\* the result; decision is {} when the call raised
route_command(command, out) ==
    IF out.kind = "raise"
    THEN [raised |-> FALSE, decision |-> {_route_with_rules(command)}]
    ELSE IF out.kind = "none"
    THEN [raised |-> TRUE, decision |-> {}]
    ELSE [raised |-> FALSE, decision |-> {out.response}]

\* OrchestratorAgentSDK.route_command
sdk_route_command(command, out) ==
    IF out.kind \in {"parsed", "str"}
    THEN [raised |-> FALSE, decision |-> {out.response}]
    ELSE [raised |-> FALSE, decision |-> {sdk_route_with_rules(command)}]

Routed(router, command, out, r) ==
    /\ routes' = Append(routes, [router |-> router, command |-> command,
                                 outcome |-> out.kind, raised |-> r.raised,
                                 decision |-> r.decision])
    /\ UNCHANGED <<qvars, svars, tvars, ovars, mvars, fvars, lvars>>

RouteCommand(command) ==
    \E out \in ParseOutcomes :
        Routed("OrchestratorAgent", command, out, route_command(command, out))

SdkRouteCommand(command) ==
    \E out \in RunnerOutcomes :
        Routed("OrchestratorAgentSDK", command, out, sdk_route_command(command, out))

\* one valid command of each action type
RouteCommands ==
    {model_validate_json(p, 1).command :
        p \in {ShapePayload(AllFields \ {"command_id"}, "config_change", "iris.cpf",
                            ConfigParameters, "high"),
               ShapePayload(AllFields \ {"command_id"}, "os_reconfig", "hugepages",
                            [resource_type |-> Str("memory"),
                             target_value |-> Num("16384")], "medium"),
               ShapePayload(AllFields \ {"command_id"}, "restart", "instance",
                            [mode |-> Str("graceful")], "critical")}}

RInit == routes = <<>>

(***************************************************************************)
(* The restart handler: RestartAgentSDK.                                   *)
(***************************************************************************)
\* the integer a JSON number of this model denotes
IntOf(v) ==
    CASE v = "60" -> 60 [] v = "1" -> 1 [] v = "-10" -> 0 - 10
      [] v = "4" -> 4 [] v = "5" -> 5 [] v = "0" -> 0
      [] OTHER -> 0

\* command.parameters.get(name, default)
ParamGet(parameters, name, default) ==
    IF name \in DOMAIN parameters THEN parameters[name] ELSE default

\* fields a RestartAgentResponse cannot be built without
RestartRequired ==
    {"success", "restart_mode", "connections_drained", "shutdown_duration_seconds",
     "startup_duration_seconds", "instance_status", "validation_passed"}

\* RestartAgentResponse(**kw): the model, or pydantic's ValidationError for a
\* missing required field or a value outside a Literal
RestartAgentResponse(kw) ==
    IF /\ RestartRequired \subseteq DOMAIN kw
       /\ kw["restart_mode"] \in {"graceful", "forced"}
       /\ kw["instance_status"] \in {"running", "stopped", "failed"}
    THEN [raised |-> FALSE, value |-> {kw}]
    ELSE [raised |-> TRUE, error |-> "ValidationError", value |-> {}]

\* the keyword arguments of the except branch of _execute_restart
RestartErrorFields(mode, status, error) ==
    [success |-> FALSE, mode |-> mode, connections_drained |-> 0,
     shutdown_duration_seconds |-> 0, startup_duration_seconds |-> 0,
     operational_status |-> status, error_message |-> {error}]

\* the dict _graceful_restart / _forced_restart return (durations left out)
RestartFields(success, mode, drained, status, error) ==
    [success |-> success, mode |-> mode, connections_drained |-> drained,
     operational_status |-> status, error_message |-> error]

\* the stage _execute_restart enters first
first_stage_AlwaysDrain(mode) == "drain"

first_stage(mode) == IF mode = "graceful" THEN "drain" ELSE "shutdown"

\* the stage that follows a stage that succeeded
next_stage_Again(stage) == stage

next_stage(stage) ==
    CASE stage = "drain"    -> "shutdown"
      [] stage = "shutdown" -> "startup"
      [] stage = "startup"  -> "validate"

\* outcomes of subprocess.run in _shutdown_instance and _startup_instance
RunOutcomes == {"ok", "nonzero", "timeout", "oserror"}

RestartIdle ==
    [pc |-> "idle", command |-> {}, mode |-> "None", timeout |-> 60,
     stages |-> <<>>, dict |-> {},
     response |-> [raised |-> FALSE, value |-> {}], connections_drained |-> 0]

\* _execute_restart returns RestartAgentResponse(**result); the ValidationError
\* of that constructor is caught by the except branch, which builds a
\* RestartAgentResponse again, outside any handler
RestartReturn(r, dict) ==
    LET first == RestartAgentResponse(dict)
        again == RestartAgentResponse(RestartErrorFields(r.mode, "error", first.error))
    IN  [r EXCEPT !.pc = "idle", !.dict = {dict},
                  !.response = IF first.raised THEN again ELSE first]

\* an exception inside the try block of _execute_restart
RestartExcept(r, error) ==
    [r EXCEPT !.pc = "idle",
              !.response = RestartAgentResponse(RestartErrorFields(r.mode, "error", error))]

\* a drain that is given the whole of timeout_seconds
stage_budget_Whole(mode, stage, timeout) ==
    CASE stage = "drain" -> timeout
      [] stage = "shutdown" -> IF mode = "graceful" THEN timeout \div 2 ELSE 10
      [] OTHER -> 30

\* the time limit a stage is called with: _drain_connections(timeout_seconds // 2),
\* _shutdown_instance(timeout=timeout_seconds // 2) or (timeout=10), and the
\* timeout=30 of _startup_instance
stage_budget(mode, stage, timeout) ==
    CASE stage = "drain" -> timeout \div 2
      [] stage = "shutdown" -> IF mode = "graceful" THEN timeout \div 2 ELSE 10
      [] OTHER -> 30

\* the stage is recorded with its outcome and, validation apart, its time limit
Stage(r, stage, outcome) ==
    [r EXCEPT !.stages = Append(r.stages,
        IF stage = "validate" THEN [stage |-> stage, outcome |-> outcome]
        ELSE [stage |-> stage, outcome |-> outcome,
              budget |-> stage_budget(r.mode, stage, r.timeout)])]

\* RestartAgentSDK.execute up to the first stage
RestartExecute(command) ==
    /\ restart_run.pc = "idle"
    /\ LET mode    == ParamGet(command.parameters, "mode", Str("graceful"))
           timeout == ParamGet(command.parameters, "timeout_seconds", Num("60"))
           r       == [RestartIdle EXCEPT !.mode = mode.v, !.command = {command}]
       IN  restart_run' =
             IF mode.v \notin {"graceful", "forced"}
             THEN [r EXCEPT !.response = RestartAgentResponse(
                       RestartErrorFields(mode.v, "unknown", "Unknown restart mode"))]
             ELSE IF mode.v = "graceful" /\ timeout.t # "num"
             THEN RestartExcept(r, "TypeError")
             ELSE [r EXCEPT !.pc = first_stage(mode.v),
                            !.timeout = IF timeout.t = "num" THEN IntOf(timeout.v) ELSE 0]
    /\ restarts' = restarts + 1
    /\ UNCHANGED <<qvars, svars, rvars, ovars, mvars, fvars, lvars>>

\* _drain_connections: time.sleep(min(timeout_seconds, 2)) raises ValueError
\* for a negative budget, else 5 connections are reported
RestartDrain ==
    /\ restart_run.pc = "drain"
    /\ restart_run' =
         IF restart_run.timeout \div 2 < 0
         THEN RestartExcept(Stage(restart_run, "drain", "ValueError"), "ValueError")
         ELSE [Stage(restart_run, "drain", "ok") EXCEPT !.pc = next_stage("drain"),
                                                    !.connections_drained = 5]
    /\ UNCHANGED <<restarts, qvars, svars, rvars, ovars, mvars, fvars, lvars>>

\* _shutdown_instance and the check of its result
RestartShutdown ==
    /\ restart_run.pc = "shutdown"
    /\ \E outcome \in RunOutcomes :
         LET r == Stage(restart_run, "shutdown", outcome)
         IN  restart_run' =
               CASE outcome = "ok" -> [r EXCEPT !.pc = next_stage("shutdown")]
                 [] outcome = "oserror" -> RestartExcept(r, "OSError")
                 [] OTHER ->
                      RestartReturn(r, RestartFields(FALSE, r.mode, r.connections_drained,
                          "shutdown_failed",
                          {IF r.mode = "graceful" THEN "Graceful shutdown failed"
                           ELSE "Forced shutdown failed"}))
    /\ UNCHANGED <<restarts, qvars, svars, rvars, ovars, mvars, fvars, lvars>>

\* _startup_instance and the check of its result
RestartStartup ==
    /\ restart_run.pc = "startup"
    /\ \E outcome \in RunOutcomes :
         LET r == Stage(restart_run, "startup", outcome)
         IN  restart_run' =
               CASE outcome = "ok" -> [r EXCEPT !.pc = next_stage("startup")]
                 [] outcome = "oserror" -> RestartExcept(r, "OSError")
                 [] OTHER ->
                      RestartReturn(r, RestartFields(FALSE, r.mode, r.connections_drained,
                          "startup_failed", {"Instance startup failed"}))
    /\ UNCHANGED <<restarts, qvars, svars, rvars, ovars, mvars, fvars, lvars>>

\* _validate_operational (it reports operational) and the final dict
RestartValidate ==
    /\ restart_run.pc = "validate"
    /\ LET r      == Stage(restart_run, "validate", "operational")
           status == "operational"
       IN  restart_run' = RestartReturn(r, RestartFields(status = "operational", r.mode,
                          r.connections_drained, status,
                          IF status = "operational" THEN {}
                          ELSE {"Post-startup validation failed"}))
    /\ UNCHANGED <<restarts, qvars, svars, rvars, ovars, mvars, fvars, lvars>>

\* valid restart commands: each mode, the default mode, and timeout_seconds
\* values of every JSON type the schema lets through
RestartCommands ==
    {model_validate_json(ShapePayload(AllFields \ {"command_id"}, "restart",
                                      "instance", ps, "critical"), 1).command :
        ps \in {NoParameters,
                [mode |-> Str("graceful")],
                [mode |-> Str("forced")],
                [mode |-> Str("graceful"), timeout_seconds |-> Num("1")],
                [mode |-> Str("graceful"), timeout_seconds |-> Num("-10")],
                [mode |-> Str("graceful"), timeout_seconds |-> Str("60")],
                [mode |-> Str("forced"), timeout_seconds |-> Str("60")]}}

TInit == restart_run = RestartIdle /\ restarts = 0

(***************************************************************************)
(* The OS-resource handler: OSAgent.                                       *)
(***************************************************************************)
\* fields an OSAgentResponse cannot be built without
OsRequired ==
    {"success", "resource_type", "target_value", "actual_value",
     "commands_executed", "validation_passed"}

\* OSAgentResponse(**kw): the model, or pydantic's ValidationError
OSAgentResponse(kw) ==
    IF OsRequired \subseteq DOMAIN kw
    THEN [raised |-> FALSE, value |-> {kw}]
    ELSE [raised |-> TRUE, error |-> "ValidationError", value |-> {}]

\* the keyword arguments every branch of _execute_impl and _configure_memory uses
OsFields(success, resource_type, old_value, new_value, commands, passed, error) ==
    [success |-> success, resource_type |-> resource_type, old_value |-> old_value,
     new_value |-> new_value, commands_executed |-> commands,
     validation_passed |-> passed, error_message |-> error]

\* outcomes of _check_permissions: uid 0, another uid, or the check failing
PermissionOutcomes == {"root", "user", "error"}

\* _check_permissions
_check_permissions(perm) == perm = "root"

\* the sysctl command line _configure_memory builds
SysctlCommand(target_pages) == <<"sysctl", "-w", "vm.nr_hugepages", target_pages>>

\* _configure_memory(target_mb) with the outcome of subprocess.run and the
\* number of pages the kernel then holds: what it returns or raises, the
\* commands it issued, and the pages left
_configure_memory(target, old_pages, outcome, new_pages) ==
    IF target.t # "num"
    THEN [raised |-> TRUE, error |-> "TypeError", issued |-> <<>>, pages |-> old_pages]
    ELSE
    LET target_mb    == IntOf(target.v)
        old_mb       == old_pages * 2
        target_pages == target_mb \div 2
        cmd          == SysctlCommand(target_pages)
        passed       == new_pages * 100 >= target_pages * 95
    IN  CASE outcome = "oserror" ->
               [raised |-> TRUE, error |-> "OSError", issued |-> <<>>, pages |-> old_pages]
          [] outcome = "timeout" ->
               [raised |-> FALSE, issued |-> <<cmd>>, pages |-> old_pages,
                dict |-> OsFields(FALSE, "memory", {old_mb}, target_mb, <<>>, FALSE,
                                  {"Command timeout"})]
          [] outcome = "nonzero" ->
               [raised |-> FALSE, issued |-> <<cmd>>, pages |-> old_pages,
                dict |-> OsFields(FALSE, "memory", {old_mb}, target_mb, <<cmd>>, FALSE,
                                  {"sysctl failed"})]
          [] OTHER ->
               [raised |-> FALSE, issued |-> <<cmd>>, pages |-> new_pages,
                dict |-> OsFields(passed, "memory", {old_mb}, new_pages * 2, <<cmd>>,
                                  passed,
                                  IF passed THEN {}
                                  ELSE {"Huge pages allocation fell short of target"})]

\* _configure_cpu(cpu_config)
_configure_cpu(target) ==
    [raised |-> FALSE, issued |-> <<>>,
     dict |-> OsFields(TRUE, "cpu", {"default"}, target.v,
                       <<"# CPU configuration placeholder">>, TRUE, {})]

\* the except branch of _execute_impl: an OSAgentResponse built outside any handler
OsExcept(resource_type, target, error) ==
    OSAgentResponse(OsFields(FALSE, resource_type, {}, target, <<>>, FALSE, {error}))

\* OSAgent._execute_impl: the response returned, or the exception that leaves it
OsRespond(dict, resource_type, target) ==
    LET first == OSAgentResponse(dict)
    IN  IF first.raised THEN OsExcept(resource_type, target, first.error) ELSE first

\* OSAgent.execute on a command; perm, outcome and new_pages are what the
\* system answers; run records the outcome of the sysctl call when one was made
OsAgentExecute(command) ==
    \E perm \in PermissionOutcomes, outcome \in RunOutcomes, new_pages \in 0..MaxPages :
      LET resource_type == ParamGet(command.parameters, "resource_type", Str("None"))
          target        == ParamGet(command.parameters, "target_value", Str("None"))
          mem           == _configure_memory(target, nr_hugepages, outcome, new_pages)
          cpu           == _configure_cpu(target)
          ran           == IF resource_type.v = "memory" THEN mem ELSE cpu
          run           == IF resource_type.v = "memory" /\ target.t = "num"
                           THEN outcome ELSE "None"
          denied        == OsFields(FALSE, resource_type.v, {}, target.v, <<>>, FALSE,
                               {"Insufficient permissions - root or sudo required"})
          unknown       == OsFields(FALSE, resource_type.v, {}, target.v, <<>>, FALSE,
                               {"Unknown resource_type"})
      IN  /\ (perm # "root" \/ resource_type.v # "memory")
                => (outcome = "ok" /\ new_pages = nr_hugepages)
          /\ (outcome # "ok" \/ target.t # "num") => new_pages = nr_hugepages
          /\ IF ~_check_permissions(perm)
             THEN /\ os_result' = [perm |-> perm, command |-> command, run |-> "None",
                                   issued |-> <<>>,
                                   dict |-> {denied},
                                   response |-> OsRespond(denied, resource_type.v, target.v)]
                  /\ nr_hugepages' = nr_hugepages
             ELSE IF resource_type.v \notin {"memory", "cpu"}
             THEN /\ os_result' = [perm |-> perm, command |-> command, run |-> "None",
                                   issued |-> <<>>,
                                   dict |-> {unknown},
                                   response |-> OsRespond(unknown, resource_type.v, target.v)]
                  /\ nr_hugepages' = nr_hugepages
             ELSE IF ran.raised
             THEN /\ os_result' = [perm |-> perm, command |-> command, run |-> run,
                                   issued |-> ran.issued, dict |-> {},
                                   response |-> OsExcept(resource_type.v, target.v, ran.error)]
                  /\ nr_hugepages' = nr_hugepages
             ELSE /\ os_result' = [perm |-> perm, command |-> command, run |-> run,
                                   issued |-> ran.issued, dict |-> {ran.dict},
                                   response |-> OsRespond(ran.dict, resource_type.v, target.v)]
                  /\ nr_hugepages' = IF resource_type.v = "memory" THEN ran.pages
                                     ELSE nr_hugepages
      /\ os_calls' = os_calls + 1
      /\ UNCHANGED <<qvars, svars, rvars, tvars, mvars, fvars, lvars>>

\* valid os_reconfig commands
OsCommands ==
    {model_validate_json(ShapePayload(AllFields \ {"command_id"}, "os_reconfig",
                                      "hugepages", ps, "medium"), 1).command :
        ps \in {[resource_type |-> Str("memory"), target_value |-> Num("4")],
                [resource_type |-> Str("memory"), target_value |-> Num("5")],
                [resource_type |-> Str("memory"), target_value |-> Str("4")],
                [resource_type |-> Str("cpu"), target_value |-> Num("4")],
                [resource_type |-> Str("disk"), target_value |-> Num("4")]}}

OInit ==
    /\ nr_hugepages = 0
    /\ os_result = [perm |-> "None"]
    /\ os_calls = 0

(***************************************************************************)
(* The message sender: MessageSenderService.                               *)
(***************************************************************************)
\* error messages handed to send_message
ErrorMessages ==
    {[process_id |-> 1, severity |-> 2, category |-> "[Utility.Event]"],
     [process_id |-> 2, severity |-> 1, category |-> "[Generic.Event]"]}

\* status codes the endpoint answers with
StatusCodes == {200, 201, 204, 404, 500}

\* what requests.post does: it returns a response with a status code, raises
\* a RequestException (connection refused, timeout), or raises an exception
\* of another class
PostOutcomes ==
    [kind : {"response"}, status_code : StatusCodes]
        \cup [kind : {"RequestException"}, error : {"ConnectionError", "Timeout"}]
        \cup [kind : {"Exception"}, error : {"Connection refused"}]

\* send_message(error) on a queue, given what requests.post did: the queue
\* left behind and the dict returned, or the exception that leaves the call
send_message(queue, error, out) ==
    CASE out.kind = "response" /\ out.status_code = 200 ->
           [raised |-> FALSE, queue |-> queue,
            value |-> {[status |-> "success", response_code |-> out.status_code]}]
      [] out.kind = "response" /\ out.status_code # 200 ->
           [raised |-> FALSE, queue |-> Append(queue, error),
            value |-> {[status |-> "failed", response_code |-> out.status_code,
                        queued |-> TRUE]}]
      [] out.kind = "RequestException" ->
           [raised |-> FALSE, queue |-> Append(queue, error),
            value |-> {[status |-> "error", error |-> out.error, queued |-> TRUE]}]
      [] OTHER ->
           [raised |-> TRUE, queue |-> queue, value |-> {}]

\* MessageSenderService.send_message called by a client of the service
SendMessage(error) ==
    /\ retry.pc # "loop"
    /\ \E out \in PostOutcomes :
         LET sent == send_message(message_queue, error, out)
         IN  /\ message_queue' = sent.queue
             /\ send_result' = [op |-> "send_message", error |-> error, out |-> out,
                                before |-> message_queue, raised |-> sent.raised,
                                value |-> sent.value]
    /\ sends' = sends + 1
    /\ UNCHANGED retry
    /\ UNCHANGED <<qvars, svars, rvars, tvars, ovars, fvars, lvars>>

\* retry_queued_messages(), up to the for statement: the empty queue returns at
\* once; otherwise the counters and remaining_queue start empty and the loop
\* iterates over self.message_queue itself. entry and results are history:
\* the queue at entry and the outcome of each delivery attempted
RetryBegin ==
    /\ retry.pc # "loop"
    /\ retry' =
         IF message_queue = <<>>
         THEN [pc |-> "returned", calls |-> retry.calls, entry |-> <<>>,
               results |-> <<>>, value |-> [status |-> "no_messages", count |-> 0]]
         ELSE [pc |-> "loop", calls |-> retry.calls, entry |-> message_queue,
               i |-> 0, success_count |-> 0, failed_count |-> 0,
               remaining_queue |-> <<>>, results |-> <<>>]
    /\ UNCHANGED <<message_queue, send_result, sends>>
    /\ UNCHANGED <<qvars, svars, rvars, tvars, ovars, fvars, lvars>>

\* the queue the for statement walks: self.message_queue, the list that
\* send_message appends to
iterated(queue, entry) == queue

\* one iteration of the for loop: the list iterator yields the element at its
\* index while the index is below the current length of the list; the message
\* is passed to send_message, which appends it to self.message_queue when the
\* delivery fails, and counted
RetryAttempt ==
    /\ retry.pc = "loop"
    /\ retry.calls < MaxAttempts
    /\ retry.i < Len(iterated(message_queue, retry.entry))
    /\ \E out \in PostOutcomes :
         LET error == iterated(message_queue, retry.entry)[retry.i + 1]
             sent  == send_message(message_queue, error, out)
             ok    == \E v \in sent.value : v.status = "success"
             r     == [retry EXCEPT !.calls = retry.calls + 1,
                                    !.results = Append(retry.results,
                                                       [error |-> error, ok |-> ok])]
         IN  /\ message_queue' = sent.queue
             /\ retry' =
                  IF sent.raised THEN [r EXCEPT !.pc = "raised"]
                  ELSE IF ok
                  THEN [r EXCEPT !.i = retry.i + 1,
                                 !.success_count = retry.success_count + 1]
                  ELSE [r EXCEPT !.i = retry.i + 1,
                                 !.failed_count = retry.failed_count + 1,
                                 !.remaining_queue = Append(retry.remaining_queue, error)]
    /\ UNCHANGED <<send_result, sends>>
    /\ UNCHANGED <<qvars, svars, rvars, tvars, ovars, fvars, lvars>>

\* the iterator is exhausted: self.message_queue = remaining_queue and the
\* counts are returned
RetryReturn ==
    /\ retry.pc = "loop"
    /\ retry.i >= Len(iterated(message_queue, retry.entry))
    /\ message_queue' = retry.remaining_queue
    /\ retry' = [pc |-> "returned", calls |-> retry.calls, entry |-> retry.entry,
                 results |-> retry.results,
                 value |-> [status |-> "completed",
                            success_count |-> retry.success_count,
                            failed_count |-> retry.failed_count,
                            remaining_queue |-> Len(retry.remaining_queue)]]
    /\ UNCHANGED <<send_result, sends>>
    /\ UNCHANGED <<qvars, svars, rvars, tvars, ovars, fvars, lvars>>

MInit ==
    /\ message_queue = <<>>
    /\ send_result = [op |-> "None"]
    /\ sends = 0
    /\ retry = [pc |-> "idle", calls |-> 0]

(***************************************************************************)
(* Calls of CPFManager.requires_restart.                                   *)
(***************************************************************************)
\* section names and keys the flag is asked about
FlagSections == {"Startup", "config", "startup", "Config", "CONFIG", "Other", "DEFAULT", ""}

FlagKeys ==
    {"globals", "Globals", "GLOBALS", "routines", "gmheap", "locksiz", "genericheap",
     "wijdir", "WIJDir", "database", "unrelated", "Unrelated", "anything", "global"}

\* manager.requires_restart(section, key)
RequiresRestart(section, key) ==
    /\ flag' = [op |-> "requires_restart", section |-> section, key |-> key,
                value |-> requires_restart(section, key)]
    /\ UNCHANGED <<qvars, svars, rvars, tvars, ovars, mvars, lvars>>

FInit == flag = [op |-> "None"]

(***************************************************************************)
(* The classifier client: LLMClient.parse.                                 *)
(***************************************************************************)
\* values of LLM_MAX_RETRIES and LLM_RETRY_DELAY_SECONDS (any int passes)
RetryCounts == 0..MaxRetries

RetryDelays == {0 - 1, 0, 2}

\* what one call of client.beta.chat.completions.parse does: it returns a
\* response whose parsed field is a model or None, or it raises
ApiOutcomes == {"parsed", "none", "APIError", "Timeout"}

ApiFailures == {"APIError", "Timeout"}

\* a wait of the same length after every failure
backoff_Constant(retry_delay, attempt) == retry_delay

\* the argument of time.sleep after the failure of attempt number attempt
\* (counted from 0)
backoff(retry_delay, attempt) == retry_delay * (attempt + 1)

\* LLMClient.parse is entered: range(max_retries) is empty for a count of 0,
\* and the statement after the loop raises
LlmParse(max_retries, retry_delay) ==
    /\ llm.pc = "idle"
    /\ llm' = [pc |-> IF max_retries <= 0 THEN "raised" ELSE "attempt",
               max_retries |-> max_retries, retry_delay |-> retry_delay,
               attempt |-> 0, outcomes |-> <<>>, waits |-> <<>>]
    /\ UNCHANGED <<qvars, svars, rvars, tvars, ovars, mvars, fvars>>

\* one pass of the loop body: the API call, and after a failure either the
\* raise of the last attempt or time.sleep, which raises ValueError for a
\* negative argument
LlmAttempt ==
    /\ llm.pc = "attempt"
    /\ \E out \in ApiOutcomes :
         LET l    == [llm EXCEPT !.outcomes = Append(llm.outcomes, out)]
             wait == backoff(llm.retry_delay, llm.attempt)
         IN  llm' =
               IF out \notin ApiFailures THEN [l EXCEPT !.pc = "returned"]
               ELSE IF llm.attempt = llm.max_retries - 1 THEN [l EXCEPT !.pc = "raised"]
               ELSE IF wait < 0 THEN [l EXCEPT !.pc = "raised"]
               ELSE [l EXCEPT !.attempt = llm.attempt + 1,
                              !.waits = Append(llm.waits, wait)]
    /\ UNCHANGED <<qvars, svars, rvars, tvars, ovars, mvars, fvars>>

LInit == llm = [pc |-> "idle"]

QInit ==
    /\ command_queue = [k \in {} |-> k]
    /\ command_order = <<>>
    /\ last = [op |-> "None"]
    /\ objects = 0
    /\ accepted = {}
    /\ dequeued = <<>>
    /\ inflight = [w \in Workers |-> {}]

Init == QInit /\ SInit /\ RInit /\ TInit /\ OInit /\ MInit /\ FInit /\ LInit

vars == <<qvars, svars, xvars>>

\* one consumer, caller-chosen command ids
NextQueue ==
    \/ \E p \in QueuePayloads : objects < MaxReceive /\ ReceiveCommand(p)
    \/ GetNextCommand

SpecQueue == Init /\ [][NextQueue]_vars

\* one consumer, every payload shape
NextIntake ==
    \/ \E p \in ShapePayloads : objects < MaxIntake /\ ReceiveCommand(p)
    \/ GetNextCommand

SpecIntake == Init /\ [][NextIntake]_vars

\* one consumer and a client asking for the queue status
NextStatus ==
    \/ \E p \in StatusPayloads : objects < MaxReceive /\ ReceiveCommand(p)
    \/ GetNextCommand
    \/ GetQueueStatus

SpecStatus == Init /\ [][NextStatus]_vars

\* a pool of workers pulling commands
NextWorkers ==
    \/ \E p \in WorkerPayloads : objects < MaxReceive /\ ReceiveCommand(p)
    \/ \E w \in Workers : WorkerPull(w)
    \/ \E w \in Workers : WorkerFinish(w)

SpecWorkers == Init /\ [][NextWorkers]_vars

\* the configuration store: direct writes, config_change handlers, a reader
NextStore ==
    \/ \E section \in SectionInputs, key \in KeyInputs, value \in ValueInputs,
          backup \in BOOLEAN :
          calls < MaxCalls /\ WriteSetting(section, key, value, backup)
    \/ \E section \in SectionInputs, key \in KeyInputs, value \in ValueInputs :
          calls < MaxCalls /\ ConfigAgentExecute(section, key, value)
    \/ WriteSettingPersist
    \/ AgentValidate
    \/ ReadFile
    \/ Tick

SpecStore == Init /\ [][NextStore]_vars

\* both routers, every classifier outcome
NextRouter ==
    \/ \E command \in RouteCommands : Len(routes) < MaxRoutes /\ RouteCommand(command)
    \/ \E command \in RouteCommands : Len(routes) < MaxRoutes /\ SdkRouteCommand(command)

SpecRouter == Init /\ [][NextRouter]_vars

\* the restart handler alone
NextRestart ==
    \/ \E command \in RestartCommands : restarts < MaxRestarts /\ RestartExecute(command)
    \/ RestartDrain
    \/ RestartShutdown
    \/ RestartStartup
    \/ RestartValidate

SpecRestart == Init /\ [][NextRestart]_vars

\* handler invocations so far, over the three handlers
Invocations == calls + restarts + os_calls

\* the three handlers on commands that satisfy the parameter contract
NextHandlers ==
    \/ \E section \in SectionInputs, key \in KeyInputs,
          value \in {v \in ValueInputs : v.t = "str"} :
          Invocations < MaxInvocations /\ ConfigAgentExecute(section, key, value)
    \/ WriteSettingPersist
    \/ AgentValidate
    \/ \E command \in OsCommands :
          /\ Invocations < MaxInvocations
          /\ command.parameters["resource_type"].v \in {"memory", "cpu"}
          /\ command.parameters["target_value"].t = "num"
          /\ OsAgentExecute(command)
    \/ \E command \in RestartCommands : Invocations < MaxInvocations /\ RestartExecute(command)
    \/ RestartDrain
    \/ RestartShutdown
    \/ RestartStartup
    \/ RestartValidate

SpecHandlers == Init /\ [][NextHandlers]_vars

\* values written in the round-trip specification
WriteValues == {Str("20000"), Str(" 20000 ")}

\* write_setting as ConfigAgent calls it, followed by its validation
NextWrite ==
    \/ \E section \in SectionInputs, key \in KeyInputs, value \in WriteValues :
          calls < MaxCalls /\ ConfigAgentExecute(section, key, value)
    \/ WriteSettingPersist
    \/ AgentValidate

SpecWrite == Init /\ [][NextWrite]_vars

\* requires_restart asked about every section and key
NextFlag ==
    \E section \in FlagSections, key \in FlagKeys : RequiresRestart(section, key)

SpecFlag == Init /\ [][NextFlag]_vars

\* one classifier call under every retry configuration; the loop body is
\* straight-line code around a call with a timeout, so it is always taken
NextLlm ==
    \/ \E max_retries \in RetryCounts, retry_delay \in RetryDelays :
          LlmParse(max_retries, retry_delay)
    \/ LlmAttempt

SpecLlm == Init /\ [][NextLlm]_vars /\ WF_vars(LlmAttempt)

\* the message sender alone
NextSender ==
    \E error \in ErrorMessages : sends < MaxSends /\ SendMessage(error)

SpecSender == Init /\ [][NextSender]_vars

\* the message sender with its retry of the queued messages
NextRetry ==
    \/ \E error \in ErrorMessages : sends < MaxSends /\ SendMessage(error)
    \/ RetryBegin
    \/ RetryAttempt
    \/ RetryReturn

SpecRetry == Init /\ [][NextRetry]_vars

(***************************************************************************)
(* Properties of the command queue.                                        *)
(***************************************************************************)
\* positions of command_order whose id resolves in command_queue
Resolvable == {i \in 1..Len(command_order) : command_order[i] \in DOMAIN command_queue}

Rank(i) == priority_order(command_queue[command_order[i]].priority)

Range(s) == {s[i] : i \in 1..Len(s)}

\* C1: the queue is sorted by priority rank: no queued command stands before a
\* queued command of strictly higher priority, and the command get_next_command
\* returns has the highest priority among those queued.
C1_QueueSortedByPriority ==
    /\ \A i, j \in Resolvable : i < j => Rank(i) <= Rank(j)
    /\ (last.op = "get_next_command" /\ last.result.status = "command")
          => \A i \in Resolvable :
                priority_order(last.result.command.priority) <= Rank(i)

\* C2: of two accepted commands of equal priority the one received first is
\* dequeued first: when a command is dequeued, every accepted command of the
\* same priority that was received before it has been dequeued before it.
C2_StableWithinPriority ==
    \A k \in 1..Len(dequeued) :
        \A c \in accepted :
            (c.priority = dequeued[k].priority /\ c.object < dequeued[k].object)
                => \E m \in 1..(k - 1) : dequeued[m] = c

\* a payload that fails validation of the schema or of the parameters of its
\* action type, as the claim describes it
C3_FailsValidation(p) ==
    \/ ~({"action_type", "target", "parameters"} \subseteq p.fields)
    \/ p.action_type \notin {"config_change", "os_reconfig", "restart"}
    \/ p.target = ""
    \/ Len(p.target) > 100
    \/ ("priority" \in p.fields /\ p.priority \notin {"low", "medium", "high", "critical"})
    \/ (p.action_type = "config_change"
          /\ \E k \in {"section", "key", "value"} : k \notin DOMAIN p.parameters)
    \/ (p.action_type = "os_reconfig"
          /\ \E k \in {"resource_type", "target_value"} : k \notin DOMAIN p.parameters)
    \/ (p.action_type = "restart" /\ "mode" \in DOMAIN p.parameters
          /\ p.parameters["mode"] \notin {Str("graceful"), Str("forced")})

C4_Contract(c) ==
    CASE c.action_type = "config_change" ->
            /\ {"section", "key", "value"} \subseteq DOMAIN c.parameters
            /\ \A k \in {"section", "key", "value"} : c.parameters[k].t = "str"
      [] c.action_type = "os_reconfig" ->
            /\ {"resource_type", "target_value"} \subseteq DOMAIN c.parameters
            /\ c.parameters["resource_type"] \in {Str("memory"), Str("cpu")}
      [] c.action_type = "restart" ->
            ("mode" \in DOMAIN c.parameters
                => c.parameters["mode"] \in {Str("graceful"), Str("forced")})

\* C4: every command in the queue satisfies the parameter contract of its
\* action type.
C4_QueuedSatisfyContract ==
    \A k \in DOMAIN command_queue : C4_Contract(command_queue[k])

\* C5: receive_command of a valid command reports a conflict exactly when an
\* entry already queued has the same target, and in either case the command is
\* accepted and enqueued.
C5_ConflictIffSameTarget ==
    [][(last'.op = "receive_command" /\ ~C3_FailsValidation(last'.input))
          => /\ last'.status = "accepted"
             /\ last'.conflicts =
                   (\E i \in Resolvable :
                       command_queue[command_order[i]].target = last'.input.target)
             /\ Len(command_order') = Len(command_order) + 1
             /\ last'.command \in {command_queue'[k] : k \in DOMAIN command_queue'}]_vars

\* C6: every accepted command is returned by exactly one get_next_command call
\* once the queue is drained: none is returned twice, none is lost, and a
\* dequeued command is not in the queue again.
C6_EachAcceptedReturnedOnce ==
    /\ \A k, m \in 1..Len(dequeued) : k # m => dequeued[k] # dequeued[m]
    /\ \A k \in 1..Len(dequeued) :
          \A id \in DOMAIN command_queue : command_queue[id] # dequeued[k]
    /\ command_order = <<>> => accepted \subseteq Range(dequeued)

\* C7: two commands with the same target are never executing at the same time.
C7_OneInFlightPerTarget ==
    \A w1, w2 \in Workers :
        (w1 # w2 /\ inflight[w1] # {} /\ inflight[w2] # {})
            => \A c1 \in inflight[w1], c2 \in inflight[w2] : c1.target # c2.target

(***************************************************************************)
(* Properties of the configuration store and of the config_change handler. *)
(***************************************************************************)
\* every (section, key) a caller of this model can ask for
AllSettings ==
    {<<Str(sec), Str(k)>> : sec \in {"Startup", "Other"},
                            k \in {"globals", "Globals", "routines", "bad\nkey"}}

SameSettings(f, g) ==
    \A sk \in AllSettings : read_setting(f, sk[1], sk[2]) = read_setting(g, sk[1], sk[2])

ValidationFailed ==
    /\ result.op = "config_agent"
    /\ ~result.raised
    /\ result.error_message = {"CPF validation failed, changes rolled back"}

\* C8: whenever write_setting returns success=false the file holds exactly the
\* content it had before the call.
C8_FailedWriteLeavesStore ==
    (ret.returned /\ ~ret.success) => cpf = ret.pre

C10_ReaderSeesOldOrNew ==
    seen.content \in {seen.pre, seen.new}

\* C11: every successful config_change handler call increases the number of
\* backup files by exactly one, also when calls follow each other within the
\* same second and when the value written equals the old one.
C11_SuccessAddsOneBackup ==
    (result.op = "config_agent" /\ ~result.raised /\ result.success)
        => Cardinality(DOMAIN backups) = result.nbackups + 1

\* C12: the content stored under a backup reference never changes and is
\* never deleted by a later store operation.
C12_BackupsImmutable ==
    [][\A t \in DOMAIN backups : t \in DOMAIN backups' /\ backups'[t] = backups[t]]_vars

(***************************************************************************)
(* Properties of the router.                                               *)
(***************************************************************************)
RouteIndexes == 1..Len(routes)

\* the rule table's row for a command, as the router called computes it
RuleRow(router, command) ==
    IF router = "OrchestratorAgent" THEN _route_with_rules(command)
    ELSE sdk_route_with_rules(command)

SameVerdict(d, e) ==
    /\ d.agent_type = e.agent_type
    /\ d.estimated_risk = e.estimated_risk
    /\ d.requires_validation = e.requires_validation

\* C14: whenever the classifier fails, times out or returns malformed or empty
\* output, route_command returns a decision, and it is the rule table's.
C14_FallbackToRules ==
    \A i \in RouteIndexes :
        routes[i].outcome \in FailedOutcomes
            => /\ ~routes[i].raised
               /\ \A d \in routes[i].decision :
                     SameVerdict(d, RuleRow(routes[i].router, routes[i].command))

\* C15: routing yields the rule table's handler and risk for the action type:
\* config_change -> config/medium, os_reconfig -> os/high, restart ->
\* restart/high, each with requires_validation true.
C15_RoutingFollowsRuleTable ==
    \A i \in RouteIndexes :
        /\ ~routes[i].raised
        /\ \A d \in routes[i].decision :
              LET a == routes[i].command.action_type
              IN  /\ d.requires_validation
                  /\ a = "config_change" => d.agent_type = "config" /\ d.estimated_risk = "medium"
                  /\ a = "os_reconfig" => d.agent_type = "os" /\ d.estimated_risk = "high"
                  /\ a = "restart" => d.agent_type = "restart" /\ d.estimated_risk = "high"

\* C16: routing the same command twice yields the same agent_type and the same
\* estimated_risk both times, whatever the classifier did.
C16_RoutingIdempotent ==
    \A i \in RouteIndexes, j \in RouteIndexes :
        (routes[i].router = routes[j].router /\ routes[i].command = routes[j].command)
            => /\ ~routes[i].raised /\ ~routes[j].raised
               /\ \A d \in routes[i].decision, e \in routes[j].decision :
                     d.agent_type = e.agent_type /\ d.estimated_risk = e.estimated_risk

\* C17: for every valid command route_command ends with a decision naming one
\* handler; a recognised action type is never routed to agent_type none.
C17_AlwaysRouted ==
    \A i \in RouteIndexes :
        /\ ~routes[i].raised
        /\ \A d \in routes[i].decision : d.agent_type \in AgentTypes \ {"none"}

\* C18: in every decision returned, requires_validation is true whenever
\* estimated_risk is not low.
C18_RiskRequiresValidation ==
    \A i \in RouteIndexes : \A d \in routes[i].decision :
        d.estimated_risk # "low" => d.requires_validation

(***************************************************************************)
(* Properties of the handlers.                                             *)
(***************************************************************************)
\* C13: no handler call raises past its boundary: for every valid command and
\* every outcome of the underlying operations the config, OS-resource and
\* restart handlers return a structured result.
C13_HandlersNeverRaise ==
    /\ result.op = "config_agent" => ~result.raised
    /\ os_result.perm # "None" => ~os_result.response.raised
    /\ (restart_run.pc = "idle" /\ restart_run.command # {})
           => ~restart_run.response.raised

StageNames(r) == [i \in 1..Len(r.stages) |-> r.stages[i].stage]

IsPrefix(s, t) == Len(s) <= Len(t) /\ \A i \in 1..Len(s) : s[i] = t[i]

\* C19: within one restart invocation the stages run in the fixed order
\* drain, shutdown, startup, validate in graceful mode and shutdown, startup,
\* validate in forced mode; no stage runs out of this order.
C19_StagesInOrder ==
    /\ restart_run.mode = "graceful"
          => IsPrefix(StageNames(restart_run), <<"drain", "shutdown", "startup", "validate">>)
    /\ restart_run.mode = "forced"
          => IsPrefix(StageNames(restart_run), <<"shutdown", "startup", "validate">>)
    /\ restart_run.pc \in {"drain", "shutdown", "startup", "validate"}
          => \A i \in 1..Len(restart_run.stages) :
                /\ restart_run.stages[i].outcome = "ok"
                /\ restart_run.stages[i].stage # restart_run.pc

\* a forced restart that ran its three stages to the end
C19_Witness ==
    /\ restart_run.pc = "idle"
    /\ restart_run.mode = "forced"
    /\ StageNames(restart_run) = <<"shutdown", "startup", "validate">>

Failed(r, stage) ==
    \E i \in 1..Len(r.stages) :
        r.stages[i].stage = stage /\ r.stages[i].outcome \in {"nonzero", "timeout"}

Ran(r, stage) == \E i \in 1..Len(r.stages) : r.stages[i].stage = stage

StatusReturned(r, status) ==
    /\ ~r.response.raised
    /\ \A v \in r.response.value : v["operational_status"] = status

\* C20: a failed stage short-circuits the invocation: after a failed shutdown
\* startup and validation are never attempted and the status is
\* shutdown_failed; after a failed startup validation is never attempted and
\* the status is startup_failed; in both modes.
C20_FailedStageShortCircuits ==
    /\ Failed(restart_run, "shutdown")
          => /\ ~Ran(restart_run, "startup") /\ ~Ran(restart_run, "validate")
             /\ restart_run.pc = "idle"
             /\ StatusReturned(restart_run, "shutdown_failed")
    /\ Failed(restart_run, "startup")
          => /\ ~Ran(restart_run, "validate")
             /\ restart_run.pc = "idle"
             /\ StatusReturned(restart_run, "startup_failed")

\* the invocation has ended and was given a mode the handler knows
RestartEnded(r) ==
    r.pc = "idle" /\ r.command # {} /\ r.mode \in {"graceful", "forced"}

\* the validation stage was reached and reported operational
ValidatedOperational(r) ==
    \E i \in 1..Len(r.stages) :
        r.stages[i].stage = "validate" /\ r.stages[i].outcome = "operational"

\* the caller received a result whose success is true
SuccessReturned(r) ==
    ~r.response.raised /\ \E v \in r.response.value : v["success"]

\* C21: the result of a restart has success=true if and only if the
\* validation stage was reached and reported operational; any earlier stage
\* failure gives success=false.
C21_SuccessIffOperational ==
    RestartEnded(restart_run)
        => (SuccessReturned(restart_run) <=> ValidatedOperational(restart_run))

\* the caller received a result whose connections_drained is n
DrainedReturned(r, n) ==
    ~r.response.raised /\ \A v \in r.response.value : v["connections_drained"] = n

\* C22: in forced mode the drain stage is never entered, and the result
\* reports connections_drained = 0 in every outcome.
C22_ForcedNeverDrains ==
    restart_run.mode = "forced"
        => /\ ~Ran(restart_run, "drain")
           /\ restart_run.pc # "drain"
           /\ RestartEnded(restart_run) => DrainedReturned(restart_run, 0)

\* how many times a stage ran in the invocation
TimesRan(r, stage) == Cardinality({i \in 1..Len(r.stages) : r.stages[i].stage = stage})

\* the file is written (config.write) only in the step taken from "writing"; an
\* invocation leaves that step for validation or its return, and validation
\* for its return
WriteNotRepeated ==
    /\ call.pc = "writing" => call'.pc \in {"idle", "validate"}
    /\ call.pc = "validate" => call'.pc = "idle"

\* C23: no state-mutating operation is retried: within one handler
\* invocation the configuration store write, the instance shutdown, the
\* instance startup and the huge-page allocation command are each performed
\* at most once, whatever their outcome.
C23_NoRetry ==
    /\ [](TimesRan(restart_run, "shutdown") <= 1 /\ TimesRan(restart_run, "startup") <= 1)
    /\ [](os_result.perm # "None" => Len(os_result.issued) <= 1)
    /\ [][WriteNotRepeated]_call

\* an allocation command that timed out and a shutdown that failed, each
\* performed once
C23_Witness ==
    /\ os_result.perm = "root"
    /\ Len(os_result.issued) = 1
    /\ \E d \in os_result.dict : d.error_message = {"Command timeout"}
    /\ restart_run.pc = "idle"
    /\ Failed(restart_run, "shutdown")
    /\ TimesRan(restart_run, "shutdown") = 1

\* the memory path ran: root, resource_type memory, and subprocess.run of
\* sysctl ended with this outcome
MemoryRun(o, outcome) == o.perm = "root" /\ o.run = outcome

\* pages the command of the last call asked for: target_mb // 2
TargetPages(o) == IntOf(o.command.parameters["target_value"].v) \div 2

\* the caller received a result
OsReturned(o) == ~o.response.raised

\* C24: if the privilege check fails (the user is not root, or the check
\* itself errors or times out) the handler returns failure immediately, issues
\* no allocation or configuration command, and reports an empty list of
\* executed commands.
C24_PermissionDenied ==
    os_result.perm \in {"user", "error"}
        => /\ os_result.issued = <<>>
           /\ LET Denied(v) == ~v["success"] /\ v["commands_executed"] = <<>>
              IN  OsReturned(os_result) /\ \A v \in os_result.response.value : Denied(v)

\* C25: in the memory path the target is requested MB // 2 pages, and after a
\* successful allocation command the result reports success and
\* validation_passed exactly when the pages re-read are at least 95% of the
\* target; the new value reported is the actual allocation in MB.
C25_MemoryTolerance ==
    MemoryRun(os_result, "ok")
        => /\ os_result.issued = <<SysctlCommand(TargetPages(os_result))>>
           /\ LET Reported(v) ==
                    /\ v["success"] <=> nr_hugepages * 100 >= TargetPages(os_result) * 95
                    /\ v["validation_passed"] = v["success"]
                    /\ v["new_value"] = nr_hugepages * 2
              IN  OsReturned(os_result) /\ \A v \in os_result.response.value : Reported(v)

\* C26: when the allocation command times out the result is a failure with
\* validation_passed false and a timeout-specific error message, and the
\* command is not issued again.
C26_TimeoutIsFailure ==
    MemoryRun(os_result, "timeout")
        => /\ Len(os_result.issued) = 1
           /\ LET TimedOut(v) == /\ ~v["success"] /\ ~v["validation_passed"]
                                 /\ v["error_message"] = {"Command timeout"}
              IN  OsReturned(os_result) /\ \A v \in os_result.response.value : TimedOut(v)

\* C28: the audit trail of the memory path is complete: every system
\* command issued during an invocation appears in the list of executed
\* commands of the result _configure_memory builds, in every outcome,
\* non-zero exit and timeout included.
C28_AuditTrailComplete ==
    (os_result.perm = "root" /\ os_result.run # "None")
        => \A d \in os_result.dict :
              Range(os_result.issued) \subseteq Range(d.commands_executed)

\* an error message is present exactly when success is false
ErrorIffFailure(v) == (v["error_message"] # {}) <=> ~v["success"]

\* C27: in every result produced by the config, OS-resource and restart
\* handlers (the responses returned and the result dicts they are built
\* from) an error message is present if and only if success is false.
C27_ErrorIffFailure ==
    /\ (result.op = "config_agent" /\ ~result.raised) => ErrorIffFailure(result)
    /\ os_result.perm # "None"
          => \A v \in os_result.dict \cup os_result.response.value : ErrorIffFailure(v)
    /\ \A v \in restart_run.dict \cup restart_run.response.value : ErrorIffFailure(v)

\* a config_change that returned a failure with its message, and a restart
\* whose result is a success without one
C27_Witness ==
    /\ result.op = "config_agent" /\ ~result.raised
    /\ ~result.success /\ result.error_message # {}
    /\ \E d \in restart_run.dict : d.success /\ d.error_message = {}

(***************************************************************************)
(* Properties of the message sender.                                       *)
(***************************************************************************)
\* the delivery failed: a transport error, or a status outside 2xx
DeliveryFailed(out) ==
    out.kind # "response" \/ out.status_code \notin 200..299

\* the dict returned says the message was queued
SaysQueued(r) ==
    ~r.raised /\ \A v \in r.value : "queued" \in DOMAIN v /\ v["queued"]

\* C29: send_message enqueues the message for retry exactly when delivery
\* failed: after a non-2xx response or a transport error it returns, without
\* raising, a result with queued = true and the retry queue has grown by
\* that one message; after a 2xx response the retry queue is unchanged.
C29_QueuedIffFailed ==
    send_result.op = "send_message"
        => IF DeliveryFailed(send_result.out)
           THEN /\ SaysQueued(send_result)
                /\ message_queue = Append(send_result.before, send_result.error)
           ELSE message_queue = send_result.before

(***************************************************************************)
(* The result of a config_change.                                          *)
(***************************************************************************)
\* a config_change has returned, and the store it was called on parsed
ConfigChangeDone == result.op = "config_agent" /\ Parse(txn.pre).ok

\* what a successful result reports: the value before the call (none if the
\* setting did not exist), the value now stored, the restart flag, and a
\* backup that holds the setting as it was before the call
ReportsChange(v) ==
    /\ v.old_value = read_setting(txn.pre, Str(v.section), Str(v.key))
    /\ read_setting(cpf, Str(v.section), Str(v.key)) = {v.new_value}
    /\ v.requires_restart = requires_restart(v.section, v.key)
    /\ v.backup_path # {}
    /\ \A b \in v.backup_path :
          /\ b \in DOMAIN backups
          /\ read_setting(backups[b], Str(v.section), Str(v.key)) = v.old_value

WriteReturnedSuccess == call.pc = "validate"

\* the settings other than the one written
OtherSettings ==
    {sk \in AllSettings :
        sk[1].v # call.section.v \/ Lower(sk[2].v) # Lower(call.key.v)}

\* C31: after write_setting(section, key, value) returns success,
\* read_setting(section, key) returns value, the section exists, and every
\* other (section, key) pair reads the same as before the call.
C31_WriteThenRead ==
    WriteReturnedSuccess
        => /\ read_setting(cpf, call.section, call.key) = {call.value.v}
           /\ call.section.v \in DOMAIN cpf
           /\ \A sk \in OtherSettings :
                 read_setting(cpf, sk[1], sk[2]) = read_setting(call.pre, sk[1], sk[2])

(***************************************************************************)
(* The restart flag.                                                       *)
(***************************************************************************)
\* every spelling, among the keys asked about, of a restart-sensitive key
RestartKeySpellings ==
    {"globals", "Globals", "GLOBALS", "routines", "gmheap", "locksiz", "genericheap",
     "wijdir", "WIJDir", "database"}

\* C32: requires_restart(section, key) is true exactly when section is
\* Startup or config (case-sensitive) or key, compared case-insensitively, is
\* one of globals, routines, gmheap, locksiz, genericheap, wijdir, database;
\* it is false otherwise, and the call leaves the store as it was.
C32_RestartFlag ==
    /\ [](flag.op = "requires_restart"
            => (flag.value <=> \/ flag.section \in {"Startup", "config"}
                               \/ flag.key \in RestartKeySpellings))
    /\ [][flag' # flag => UNCHANGED <<cpf, backups>>]_vars

\* Other.GLOBALS requires a restart, by its key alone
C32_Witness ==
    /\ flag.op = "requires_restart"
    /\ flag.section = "Other" /\ flag.key = "GLOBALS"
    /\ flag.value

(***************************************************************************)
(* The queue operations get_next_command and get_queue_status.             *)
(***************************************************************************)
\* C33: get_next_command on a non-empty queue removes and returns exactly
\* the head entry: the size decreases by one and the remaining entries keep
\* their relative order; on an empty queue it returns the empty signal and
\* leaves the queue unchanged.
C33_GetNextPopsHead ==
    [][last'.op = "get_next_command"
          => IF command_order = <<>>
             THEN /\ last'.result = [status |-> "None"]
                  /\ command_order' = command_order
                  /\ command_queue' = command_queue
             ELSE /\ last'.result.status = "command"
                  /\ Head(command_order) \in DOMAIN command_queue
                  /\ last'.result.command = command_queue[Head(command_order)]
                  /\ command_order' = Tail(command_order)
                  /\ Len(command_order') = Len(command_order) - 1
                  /\ command_queue' = DictPop(command_queue, Head(command_order))]_vars

\* C34: get_queue_status is a read-only snapshot: it leaves the queue
\* unchanged, its total equals the number of queued commands, and its
\* per-priority and per-action-type counts each sum to that total and match
\* the commands actually queued.
C34_StatusIsSnapshot ==
    [][last'.op = "get_queue_status"
          => /\ command_queue' = command_queue
             /\ command_order' = command_order
             /\ last'.result.status = "ok"
             /\ LET st == last'.result
                IN  /\ st.total_commands = Cardinality(DOMAIN command_queue)
                    /\ \A p \in Priorities :
                          st.by_priority[p] = Cardinality({k \in DOMAIN command_queue :
                                                  command_queue[k].priority = p})
                    /\ \A t \in ActionTypes :
                          st.by_action[t] = Cardinality({k \in DOMAIN command_queue :
                                                command_queue[k].action_type = t})
                    /\ st.by_priority["critical"] + st.by_priority["high"]
                          + st.by_priority["medium"] + st.by_priority["low"]
                             = st.total_commands
                    /\ st.by_action["config_change"] + st.by_action["os_reconfig"]
                          + st.by_action["restart"] = st.total_commands]_vars

(***************************************************************************)
(* Properties of the classifier client.                                    *)
(***************************************************************************)
LlmStarted == llm.pc # "idle"

LlmEnded == llm.pc \in {"returned", "raised"}

\* failed attempts so far
LlmFailures == Cardinality({i \in 1..Len(llm.outcomes) : llm.outcomes[i] \in ApiFailures})

\* C35: a call of LLMClient.parse makes at most max_retries attempts and
\* returns at the first success; the wait before the next attempt is
\* retry_delay times the number of failed attempts so far; after the last
\* failed attempt it raises without waiting again; the call always ends.
C35_BoundedRetries ==
    /\ [](LlmStarted =>
            /\ Len(llm.outcomes) <= llm.max_retries
            /\ \A i \in 1..Len(llm.outcomes) :
                  llm.outcomes[i] \notin ApiFailures
                      => (i = Len(llm.outcomes) /\ llm.pc = "returned")
            /\ llm.pc = "returned" => llm.outcomes[Len(llm.outcomes)] \notin ApiFailures
            /\ \A i \in 1..Len(llm.waits) : llm.waits[i] = llm.retry_delay * i
            /\ Len(llm.waits) <= LlmFailures
            /\ llm.pc = "attempt" => Len(llm.waits) = LlmFailures
            /\ llm.pc = "raised" => Len(llm.waits) = (IF LlmFailures = 0 THEN 0
                                                      ELSE LlmFailures - 1))
    /\ (LlmStarted ~> LlmEnded)

\* three attempts failed: two waits of 2 and 4 seconds, then the raise
C35_Witness ==
    /\ LlmStarted /\ llm.pc = "raised"
    /\ llm.max_retries = 3 /\ llm.retry_delay = 2
    /\ Len(llm.outcomes) = 3
    /\ llm.waits = <<2, 4>>

(***************************************************************************)
(* Time limits of the restart stages.                                      *)
(***************************************************************************)
\* the time limits given to a stage in this invocation (none if it did not run)
BudgetsOf(r, stage) ==
    {r.stages[i].budget : i \in {j \in 1..Len(r.stages) : r.stages[j].stage = stage}}

\* forced shutdown has a 10 second limit and startup a 30 second limit
FixedCeilings ==
    /\ restart_run.mode = "forced" => BudgetsOf(restart_run, "shutdown") \subseteq {10}
    /\ BudgetsOf(restart_run, "startup") \subseteq {30}

\* C36 as stated: in graceful mode drain is given half of timeout_seconds and
\* shutdown the remaining half, so that the two limits together equal
\* timeout_seconds and never exceed it; forced shutdown has a fixed 10 second
\* limit and startup a fixed 30 second limit.
C36_BudgetsAddUp ==
    /\ restart_run.mode = "graceful"
          => \A d \in BudgetsOf(restart_run, "drain"), s \in BudgetsOf(restart_run, "shutdown") :
                d + s = restart_run.timeout
    /\ FixedCeilings

\* C36, amended: in graceful mode drain and shutdown are each given
\* timeout_seconds // 2; the two limits together never exceed timeout_seconds,
\* equal it when timeout_seconds is even and fall one second short of it when
\* it is odd; forced shutdown has a fixed 10 second limit and startup a fixed
\* 30 second limit, whatever timeout_seconds is.
C36_BudgetsWithinTimeout ==
    /\ restart_run.mode = "graceful"
          => /\ \A d \in BudgetsOf(restart_run, "drain") \cup BudgetsOf(restart_run, "shutdown") :
                   /\ d + d <= restart_run.timeout
                   /\ d + d >= restart_run.timeout - 1
             /\ \A d \in BudgetsOf(restart_run, "drain"), s \in BudgetsOf(restart_run, "shutdown") :
                   /\ d + s <= restart_run.timeout
                   /\ d + s = restart_run.timeout - (restart_run.timeout % 2)
    /\ FixedCeilings

\* a graceful restart with timeout_seconds = 1 that drained and shut down
C36_Witness ==
    /\ restart_run.mode = "graceful" /\ restart_run.timeout = 1
    /\ BudgetsOf(restart_run, "drain") = {0}
    /\ BudgetsOf(restart_run, "shutdown") = {0}
    /\ BudgetsOf(restart_run, "startup") = {30}

(***************************************************************************)
(* Resubmission of a queued command_id.                                    *)
(***************************************************************************)
\* no id occurs twice in the order list
DistinctIds ==
    \A i, j \in 1..Len(command_order) : i # j => command_order[i] # command_order[j]

\* the order list and the command map describe the same commands
OrderMatchesMap ==
    /\ Len(command_order) = Cardinality(DOMAIN command_queue)
    /\ \A i \in 1..Len(command_order) :
          /\ command_order[i] \in DOMAIN command_queue
          /\ command_queue[command_order[i]].command_id = command_order[i]

\* C37: after any sequence of receive_command and get_next_command calls,
\* resubmissions of a queued command_id included, the queued ids are pairwise
\* distinct, the order list and the command map describe the same commands,
\* and get_next_command never fails.
C37_QueueConsistent ==
    /\ DistinctIds
    /\ OrderMatchesMap
    /\ last.op = "get_next_command" => last.result.status # "KeyError"

(***************************************************************************)
(* The retry of the queued messages.                                       *)
(***************************************************************************)
\* the messages of the queue at entry whose delivery attempt failed, in order
RECURSIVE FailedFrom(_, _, _)
FailedFrom(entry, results, k) ==
    IF k > Len(entry) \/ k > Len(results) THEN <<>>
    ELSE (IF results[k].ok THEN <<>> ELSE <<entry[k]>>) \o FailedFrom(entry, results, k + 1)

\* occurrences of a message in a queue
Count(queue, e) == Cardinality({k \in 1..Len(queue) : queue[k] = e})

\* delivery attempts of a message that succeeded
Delivered(results, e) ==
    Cardinality({k \in 1..Len(results) : results[k].error = e /\ results[k].ok})

\* C38: retry_queued_messages terminates whatever the queue holds and however
\* the deliveries turn out: it attempts each message queued at entry exactly
\* once, so it never makes more attempts than messages were queued at entry,
\* and when it has returned the messages attempted are those of the queue at
\* entry, in order.
C38_EachAttemptedOnce ==
    /\ retry.pc \in {"loop", "raised"} => Len(retry.results) <= Len(retry.entry)
    /\ retry.pc = "returned"
          => /\ Len(retry.results) = Len(retry.entry)
             /\ \A k \in 1..Len(retry.entry) : retry.results[k].error = retry.entry[k]

\* the queue and the counts are as C39 says
QueueIsTheFailures ==
    /\ message_queue = FailedFrom(retry.entry, retry.results, 1)
    /\ \A e \in ErrorMessages :
          Count(message_queue, e) = Count(retry.entry, e) - Delivered(retry.results, e)
    /\ retry.value.success_count + retry.value.failed_count = Len(retry.entry)

\* C39: when retry_queued_messages returns, the queue holds exactly the
\* messages whose retry failed, each once and in their original order, a
\* message delivered during the retry is no longer queued, and success_count
\* plus failed_count is the number of messages queued at entry.
C39_QueueIsTheFailures ==
    [][(retry.pc = "loop" /\ retry'.pc = "returned") => QueueIsTheFailures']_vars

(***************************************************************************)
(* The command_str of a rule-based routing decision.                       *)
(***************************************************************************)
\* the JSON document a command_str holds, as the payload that
\* RemediationCommand.model_validate_json reads: model_dump_json writes every
\* field of the command, json.dumps(command.parameters) the keys of the
\* parameters at the top level
loads(command_str) ==
    CASE command_str.dump = "command" ->
           [fields |-> AllFields,
            command_id |-> command_str.of.command_id,
            action_type |-> command_str.of.action_type,
            target |-> command_str.of.target,
            parameters |-> command_str.of.parameters,
            priority |-> command_str.of.priority]
      [] command_str.dump = "parameters" ->
           [k \in DOMAIN command_str.of \cup {"fields"} |->
               IF k = "fields" THEN DOMAIN command_str.of ELSE command_str.of[k]]
      [] OTHER -> [fields |-> {}]

\* the first statement of a handler's execute(input_str)
execute_parse(input_str) == model_validate_json(loads(input_str), 2)

\* the decision was made by _route_with_rules
RuleBased(route) ==
    \/ route.router = "OrchestratorAgent" /\ route.outcome = "raise"
    \/ route.router = "OrchestratorAgentSDK" /\ route.outcome \notin {"parsed", "str"}

\* command_str parses to the routed command
Reconstructs(route) ==
    \A d \in route.decision :
        LET parsed == execute_parse(d.command_str)
        IN  /\ parsed.ok
            /\ parsed.command.command_id = route.command.command_id
            /\ parsed.command.action_type = route.command.action_type
            /\ parsed.command.target = route.command.target
            /\ parsed.command.parameters = route.command.parameters

\* C40: the command_str of a rule-based routing decision, passed to the
\* execute operation of the selected handler, parses to the routed command
\* (same id, action type, target and parameters), for both routers.
C40_CommandStrRoundTrips ==
    \A i \in 1..Len(routes) : RuleBased(routes[i]) => Reconstructs(routes[i])

====
